---- MODULE Spec2Model ----
(***************************************************************************)
(* Model of the shrine scraping scripts:                                   *)
(*   scripts/scrape-shrines.py  fetch, extract_links, extract_region,      *)
(*                              geocode_shrine, extract_shrine_info, main  *)
(*   scripts/geo_conv.py        get_gps_coordinates                        *)
(* Text is a sequence of one-character strings.  Four specifications:      *)
(*   Spec             one run of scrape-shrines.py main                    *)
(*   SpecLinks        extract_links applied to a listing page              *)
(*   SpecInfo         the address / prefecture rules of extract_shrine_info*)
(*   SpecGeoConv      one run of geo_conv.py get_gps_coordinates           *)
(***************************************************************************)
EXTENDS Integers, Sequences, FiniteSets, TLC

VARIABLES
    \* scrape-shrines.py main
    pc,           \* "start" | "loop" | "done"
    links,        \* links = extract_links(main_page)
    idx,          \* number of links whose loop body has run (enumerate index)
    shrines,      \* the accumulated list of shrine records
    shrine_id,    \* next id to hand out
    output,       \* what json.dump wrote: <<>> before, <<shrines>> after
    progress,     \* one entry per loop body run: what the body printed
    listing,      \* history: "none" | "ok" | "failed" (the listing fetch)
    sinceGeocode, \* time since the last geocoding request started, capped
    minGap,       \* history: smallest gap seen between two geocoding requests
    \* extract_links alone
    lpc, lhtml, lresult,
    \* extract_shrine_info alone
    ipc, icell, iinfo,
    \* geo_conv.py get_gps_coordinates
    gpc, df, row, lats, lons, lookups

mainVars == <<pc, links, idx, shrines, shrine_id, output, progress, listing,
              sinceGeocode, minGap>>
linkVars == <<lpc, lhtml, lresult>>
infoVars == <<ipc, icell, iinfo>>
gcVars   == <<gpc, df, row, lats, lons, lookups>>
vars     == <<mainVars, linkVars, infoVars, gcVars>>

(***************************************************************************)
(* Bounds of the model.                                                    *)
(***************************************************************************)
MaxLinks  == 3   \* anchors on a listing page given to main
MaxHrefs  == 2   \* anchors on a listing page given to extract_links alone
MaxSegs   == 4   \* path pieces after the section root in one anchor target
MaxPieces == 4   \* text pieces in one address cell
MaxRows   == 2   \* rows of shrine_data_v4.csv
MaxWait   == 1   \* longest network wait, in half seconds

(***************************************************************************)
(* Text helpers.                                                           *)
(***************************************************************************)
Absent  == <<"<absent>">>  \* a key that is not in a dict / a label not found
None    == <<>>            \* Python's None; a value v that is not None is <<v>>
Some(v) == <<v>>

Min(a, b) == IF a < b THEN a ELSE b

RECURSIVE Concat(_)
Concat(ss) == IF ss = <<>> THEN <<>> ELSE Head(ss) \o Concat(Tail(ss))

\* sub in s
Contains(s, sub) ==
    \E p \in 1..(Len(s) - Len(sub) + 1) : SubSeq(s, p, p + Len(sub) - 1) = sub

\* s.split('/')
RECURSIVE Split(_)
Split(s) ==
    IF \A p \in 1..Len(s) : s[p] # "/" THEN <<s>>
    ELSE LET k == CHOOSE p \in 1..Len(s) :
                      s[p] = "/" /\ \A q \in 1..(p - 1) : s[q] # "/"
         IN  <<SubSeq(s, 1, k - 1)>> \o Split(SubSeq(s, k + 1, Len(s)))

\* '/'.join(parts)
RECURSIVE Join(_)
Join(parts) ==
    IF Len(parts) = 1 THEN parts[1]
    ELSE parts[1] \o <<"/">> \o Join(Tail(parts))

\* code point order of the characters that occur in link paths
CharCode(c) ==
    CASE c = "." -> 46 [] c = "/" -> 47 [] c = "a" -> 97 [] c = "b" -> 98
      [] c = "g" -> 103 [] c = "i" -> 105 [] c = "j" -> 106 [] c = "l" -> 108
      [] c = "o" -> 111 [] c = "p" -> 112 [] c = "s" -> 115 [] c = "t" -> 116

\* Python's str < str
RECURSIVE StrLess(_, _)
StrLess(s, t) ==
    IF t = <<>> THEN FALSE
    ELSE IF s = <<>> THEN TRUE
    ELSE IF Head(s) # Head(t) THEN CharCode(Head(s)) < CharCode(Head(t))
    ELSE StrLess(Tail(s), Tail(t))

\* sorted(list(S)) for a set S of strings
RECURSIVE SortedList(_)
SortedList(S) ==
    IF S = {} THEN <<>>
    ELSE LET m == CHOOSE x \in S : \A y \in S \ {x} : StrLess(x, y)
         IN  <<m>> \o SortedList(S \ {m})

(***************************************************************************)
(* extract_links.  A listing page is modelled by the values of its href    *)
(* attributes in document order; a value holds no double quote.            *)
(***************************************************************************)
SectionRoot == <<"/", "a", "l", "l", "l", "i", "s", "t", "/">>
OtherRoot   == <<"/", "o", "/">>
ImageExts   == {<<".", "j", "p", "g">>, <<".", "p", "n", "g">>, <<".", "g", "i", "f">>}

\* href="(/alllist/[^"]+/[^"]+/)" matched against one attribute value v:
\* v = /alllist/ X / Y / with X and Y non-empty runs of non-quote characters
PatternMatches(v) ==
    LET n == Len(SectionRoot)
    IN  /\ Len(v) >= n + 4
        /\ SubSeq(v, 1, n) = SectionRoot
        /\ v[Len(v)] = "/"
        /\ \E k \in (n + 2)..(Len(v) - 2) : v[k] = "/"

\* re.findall(pattern, html)
RECURSIVE FindAll(_)
FindAll(html) ==
    IF html = <<>> THEN <<>>
    ELSE (IF PatternMatches(Head(html)) THEN <<Head(html)>> ELSE <<>>)
         \o FindAll(Tail(html))

IsImage(link) == \E ext \in ImageExts : Contains(link, ext)

RECURSIVE ValidLinks(_)
ValidLinks(found) ==
    IF found = <<>> THEN <<>>
    ELSE (IF IsImage(Head(found)) THEN <<>> ELSE <<Head(found)>>)
         \o ValidLinks(Tail(found))

SeqRange(s) == {s[p] : p \in 1..Len(s)}

extract_links(html) == SortedList(SeqRange(ValidLinks(FindAll(html))))

\* extract_region: the paths of the model hold no percent escape, which
\* unquote would decode; parts[2] is the third element counting from 1
extract_region(link) ==
    LET parts == Split(link)
    IN  IF Len(parts) >= 3 THEN parts[3] ELSE <<>>

\* the anchor targets the listing pages of the model are built from
SegNames == {<<>>, <<"a">>, <<"a", ".", "j", "p", "g">>}
SegLists == UNION {[1..n -> SegNames] : n \in 1..MaxSegs}
HrefValues ==
    {root \o Join(segs) : root \in {SectionRoot, OtherRoot}, segs \in SegLists}
ListingPages == UNION {[1..n -> HrefValues] : n \in 0..MaxHrefs}

InitLinks ==
    /\ lpc = "input"
    /\ lhtml \in ListingPages
    /\ lresult = <<>>

RunExtractLinks ==
    /\ lpc = "input"
    /\ lresult' = extract_links(lhtml)
    /\ lpc' = "output"
    /\ UNCHANGED <<lhtml, mainVars, infoVars, gcVars>>

(***************************************************************************)
(* extract_shrine_info: the name, address and prefecture rules.  The       *)
(* Japanese characters are written as one-character stand-ins:             *)
(*   "TO" "DO" "FU" "KEN"  the four prefecture suffixes 都 道 府 県        *)
(*   "KYO" "SHI"           any other character of a place name (京, 市)    *)
(*   "POSTMARK"            the postal mark 〒                              *)
(***************************************************************************)
PrefSuffixes == {"TO", "DO", "FU", "KEN"}
Digits       == {"0", "1"}
IsSpace(c)   == c = " "

\* str.strip()
RECURSIVE LStrip(_)
LStrip(s) == IF s # <<>> /\ IsSpace(Head(s)) THEN LStrip(Tail(s)) ELSE s
RECURSIVE RStrip(_)
RStrip(s) ==
    IF s # <<>> /\ IsSpace(s[Len(s)]) THEN RStrip(SubSeq(s, 1, Len(s) - 1)) ELSE s
Strip(s) == RStrip(LStrip(s))

\* where a match of <[^>]+> that starts at the head of s ends; 0 when none
TagEnd(s) ==
    IF s # <<>> /\ Head(s) = "<" /\ \E q \in 2..Len(s) : s[q] = ">"
    THEN LET q == CHOOSE r \in 2..Len(s) :
                      s[r] = ">" /\ \A t \in 2..(r - 1) : s[t] # ">"
         IN  IF q >= 3 THEN q ELSE 0
    ELSE 0

\* re.sub(r'<[^>]+>', ' ', address)
RECURSIVE ReplaceTags(_)
ReplaceTags(s) ==
    IF s = <<>> THEN <<>>
    ELSE IF TagEnd(s) > 0
         THEN <<" ">> \o ReplaceTags(SubSeq(s, TagEnd(s) + 1, Len(s)))
         ELSE <<Head(s)>> \o ReplaceTags(Tail(s))

\* whether 〒\d{3}-\d{4} matches at the head of s
PostalAtHead(s) ==
    /\ Len(s) >= 9
    /\ s[1] = "POSTMARK"
    /\ \A p \in {2, 3, 4, 6, 7, 8, 9} : s[p] \in Digits
    /\ s[5] = "-"

\* re.sub(r'〒\d{3}-\d{4}\s*', '', address)
RECURSIVE RemovePostal(_)
RemovePostal(s) ==
    IF s = <<>> THEN <<>>
    ELSE IF PostalAtHead(s)
         THEN RemovePostal(LStrip(SubSeq(s, 10, Len(s))))
         ELSE <<Head(s)>> \o RemovePostal(Tail(s))

\* re.sub(r'\s+', ' ', address)
RECURSIVE CollapseSpaces(_)
CollapseSpaces(s) ==
    IF s = <<>> THEN <<>>
    ELSE IF IsSpace(Head(s))
         THEN <<" ">> \o CollapseSpaces(LStrip(s))
         ELSE <<Head(s)>> \o CollapseSpaces(Tail(s))

\* lines 105-114: the cleaned address of a 所在地 value cell
CleanAddress(cell) == Strip(CollapseSpaces(RemovePostal(ReplaceTags(cell))))

\* re.match(r'^(.+?[都道府県])', address): the shortest prefix of at least
\* two characters that ends in a suffix character; Absent when none
PrefectureMatch(address) ==
    IF \E k \in 2..Len(address) : address[k] \in PrefSuffixes
    THEN LET k == CHOOSE j \in 2..Len(address) :
                      /\ address[j] \in PrefSuffixes
                      /\ \A m \in 2..(j - 1) : address[m] \notin PrefSuffixes
         IN  SubSeq(address, 1, k)
    ELSE Absent

\* the value cells of one detail page; Absent when the label row is missing
\* (the page of a failed fetch is the empty text: both rows missing)
extract_shrine_info(html) ==
    LET name    == IF html.nameCell = Absent THEN Absent ELSE Strip(html.nameCell)
        address == IF html.addrCell = Absent THEN Absent
                   ELSE CleanAddress(html.addrCell)
    IN  [name       |-> name,
         address    |-> address,
         prefecture |-> IF address = Absent THEN Absent
                        ELSE PrefectureMatch(address)]

\* info.get(key, '')
Get(info, key) == IF info[key] = Absent THEN <<>> ELSE info[key]

Pieces ==
    { <<"KYO">>, <<"TO">>, <<"FU">>, <<" ">>, <<"<", "b", "r", ">">>,
      <<"POSTMARK", "1", "0", "0", "-", "0", "0", "0", "1">> }
AddressCells ==
    {Concat(ps) : ps \in UNION {[1..n -> Pieces] : n \in 0..MaxPieces}}

InitInfo ==
    /\ ipc = "input"
    /\ icell \in AddressCells \cup {Absent}
    /\ iinfo = [name |-> Absent, address |-> Absent, prefecture |-> Absent]

RunExtractInfo ==
    /\ ipc = "input"
    /\ iinfo' = extract_shrine_info([nameCell |-> <<"KYO">>, addrCell |-> icell])
    /\ ipc' = "output"
    /\ UNCHANGED <<icell, mainVars, linkVars, gcVars>>

(***************************************************************************)
(* geocode_shrine.  stdout of curl, as json.loads sees it:                 *)
(*   kind "empty"   no output at all (transport failure, timeout)          *)
(*   kind "text"    output that is not JSON (an HTML error page)           *)
(*   kind "object"  a JSON object such as {"error": "..."}                 *)
(*   kind "array"   a JSON array; items are its elements, each a JSON      *)
(*                  object with optional string members lat and lon, or a  *)
(*                  scalar (a number, null)                                *)
(***************************************************************************)
Missing == "<missing>"

\* float(s) of a string: defined on the numeric ones
ParseFloat(s) == CASE s = "35" -> 35 [] s = "139" -> 139
IsNumeric(s)  == s \in {"35", "139"}

NoItems == <<>>
GeoItems ==
    {[kind |-> "scalar", lat |-> Missing, lon |-> Missing]}
    \cup {[kind |-> "object", lat |-> a, lon |-> o] :
              a \in {Missing, "35", "abc"}, o \in {Missing, "139", "abc"}}
GeoResponses ==
    {[kind |-> k, items |-> NoItems] : k \in {"empty", "text", "object", "array"}}
    \cup {[kind |-> "array", items |-> <<it>>] : it \in GeoItems}
NoRequest == [kind |-> "none", items |-> NoItems]

GeoNotFound      == [exc |-> "none", lat |-> None, lng |-> None]
GeoFound(a, o)   == [exc |-> "none", lat |-> Some(a), lng |-> Some(o)]
GeoRaises(e)     == [exc |-> e, lat |-> None, lng |-> None]

\* a plausible slip: a result built member by member
geocode_shrine_Partial(name, stdout) ==
    IF name = <<>> \/ stdout.kind # "array" \/ stdout.items = NoItems
    THEN GeoNotFound
    ELSE LET item == stdout.items[1]
             half(v) == IF IsNumeric(v) THEN Some(ParseFloat(v)) ELSE None
         IN  [exc |-> "none", lat |-> half(item.lat), lng |-> half(item.lon)]

\* lines 50-73.  Caught: JSONDecodeError, KeyError, IndexError.  float() of a
\* non-numeric string raises ValueError and indexing a scalar raises
\* TypeError; neither is caught here.
geocode_shrine(name, stdout) ==
    IF name = <<>> THEN GeoNotFound
    ELSE IF stdout.kind \in {"empty", "text"} THEN GeoNotFound  \* JSONDecodeError
    ELSE IF stdout.kind = "object" THEN GeoNotFound             \* data[0]: KeyError
    ELSE IF stdout.items = NoItems THEN GeoNotFound             \* falsy data
    ELSE LET item == stdout.items[1]
         IN  IF item.kind = "scalar" THEN GeoRaises("TypeError")
             ELSE IF item.lat = Missing THEN GeoNotFound        \* KeyError
             ELSE IF ~IsNumeric(item.lat) THEN GeoRaises("ValueError")
             ELSE IF item.lon = Missing THEN GeoNotFound        \* KeyError
             ELSE IF ~IsNumeric(item.lon) THEN GeoRaises("ValueError")
             ELSE GeoFound(ParseFloat(item.lat), ParseFloat(item.lon))

(***************************************************************************)
(* main of scrape-shrines.py.  Time is counted in half seconds.            *)
(***************************************************************************)
SleepAfterGeocode == 2   \* time.sleep(1)
SleepAfterLink    == 1   \* time.sleep(0.5)
MinDelay          == 2   \* at most one geocoding request per second

\* time since the last geocoding request, d later (kept up to MinDelay)
Tick(t, d) == Min(MinDelay, t + d)

\* fetch(url): curl's stdout. curl that fails (timeout, no network) prints
\* nothing and fetch returns '' without raising; subprocess.run itself can
\* raise (OSError, a decoding error), which the listing fetch does not catch
EmptyText == <<>>
MainHrefs ==
    {SectionRoot \o Join(segs) :
        segs \in {<<<<"a">>, <<"a">>, <<>> >>, <<<<"a">>, <<"b">>, <<>> >>,
                  <<<<"b">>, <<"a">>, <<>> >>,
                  <<<<"a">>, <<"a", ".", "j", "p", "g">>, <<>> >>}}
ListingFetches ==
    {[status |-> "failed", html |-> EmptyText]}
    \cup {[status |-> "ok", html |-> h] :
              h \in UNION {[1..n -> MainHrefs] : n \in 0..MaxLinks}}

AddressA ==
    <<"POSTMARK", "1", "0", "0", "-", "0", "0", "0", "1", " ", "KYO", "TO", "SHI">>
EmptyPage == [nameCell |-> Absent, addrCell |-> Absent]
DetailFetches ==
    { [status |-> "raised", html |-> EmptyPage],
      [status |-> "failed", html |-> EmptyPage],
      [status |-> "ok", html |-> [nameCell |-> <<" ">>, addrCell |-> AddressA]],
      [status |-> "ok", html |-> [nameCell |-> <<"A">>, addrCell |-> AddressA]],
      [status |-> "ok", html |-> [nameCell |-> <<"B", " ">>, addrCell |-> Absent]] }

\* lines 161-175 (src: the position of the link in links, for the history)
MakeShrine(id, info, link, geo, src) ==
    [id         |-> id,
     name       |-> Get(info, "name"),
     region     |-> extract_region(link),
     prefecture |-> Get(info, "prefecture"),
     address    |-> Get(info, "address"),
     lat        |-> geo.lat,
     lng        |-> geo.lng,
     src        |-> src]

NextId_Stuck(id) == id

\* line 177
NextId(id) == id + 1

PcAfterBody_Abort(outcome) == IF outcome = "error" THEN "crashed" ELSE "loop"

\* lines 146, 188-189: an exception in the body is printed and the for loop
\* goes on with the next link
PcAfterBody(outcome) == "loop"

InitMain ==
    /\ pc = "start"
    /\ links = <<>>
    /\ idx = 0
    /\ shrines = <<>>
    /\ shrine_id = 1
    /\ output = None
    /\ progress = <<>>
    /\ listing = "none"
    /\ sinceGeocode = MinDelay
    /\ minGap = MinDelay

\* lines 139-144
Discover ==
    /\ pc = "start"
    /\ \E f \in ListingFetches :
         /\ listing' = f.status
         /\ links' = extract_links(f.html)
    /\ pc' = "loop"
    /\ UNCHANGED <<idx, shrines, shrine_id, output, progress, sinceGeocode, minGap>>
    /\ UNCHANGED <<linkVars, infoVars, gcVars>>

\* lines 146-189: one run of the loop body
LoopBody ==
    /\ pc = "loop"
    /\ idx < Len(links)
    /\ \E f \in DetailFetches, resp \in GeoResponses,
          dFetch \in 0..MaxWait, dGeo \in 0..MaxWait :
         LET link    == links[idx + 1]
             info    == extract_shrine_info(f.html)
             name    == Get(info, "name")
             asked   == f.status # "raised" /\ name # <<>>
             geo     == geocode_shrine(name, resp)
             outcome == IF f.status = "raised" THEN "error"
                        ELSE IF ~asked THEN "incomplete"
                        ELSE IF geo.exc # "none" THEN "error"
                        ELSE "record"
             gap     == Tick(sinceGeocode, dFetch)
         IN  /\ progress' = Append(progress,
                    [link    |-> idx + 1,
                     fetch   |-> f.status,
                     name    |-> IF f.status = "raised" THEN <<>> ELSE name,
                     resp    |-> IF asked THEN resp ELSE NoRequest,
                     outcome |-> outcome])
             /\ shrines' = IF outcome = "record"
                           THEN Append(shrines,
                                    MakeShrine(shrine_id, info, link, geo, idx + 1))
                           ELSE shrines
             /\ shrine_id' = IF outcome = "record" THEN NextId(shrine_id)
                             ELSE shrine_id
             /\ minGap' = IF asked THEN Min(minGap, gap) ELSE minGap
             /\ sinceGeocode' =
                    IF f.status = "raised" THEN gap
                    ELSE IF ~asked THEN Tick(gap, SleepAfterLink)
                    ELSE IF outcome = "error" THEN Tick(0, dGeo)
                    ELSE Tick(0, dGeo + SleepAfterGeocode + SleepAfterLink)
             /\ pc' = PcAfterBody(outcome)
    /\ idx' = idx + 1
    /\ UNCHANGED <<links, output, listing, linkVars, infoVars, gcVars>>

\* lines 191-201
Finalize ==
    /\ pc = "loop"
    /\ idx = Len(links)
    /\ output' = Some(shrines)
    /\ pc' = "done"
    /\ UNCHANGED <<links, idx, shrines, shrine_id, progress, listing,
                   sinceGeocode, minGap, linkVars, infoVars, gcVars>>


(***************************************************************************)
(* geo_conv.py get_gps_coordinates.  geocode is geopy's rate limited       *)
(* geolocator.geocode; one call of it is one lookup, which returns a       *)
(* location, returns None (nothing found) or raises.                       *)
(***************************************************************************)
LookupResults ==
    {[kind |-> "found", lat |-> c[1], lon |-> c[2]] : c \in {<<35, 139>>, <<34, 135>>}}
    \cup {[kind |-> k, lat |-> 0, lon |-> 0] : k \in {"none", "raised"}}

CsvRows ==
    {[name |-> n, address |-> <<"KYO", "TO", "SHI">>] : n \in {<<"A">>, <<"B">>}}
CsvFiles == UNION {[1..n -> CsvRows] : n \in 0..MaxRows}

PrimaryQuery(r)  == r.address \o <<" ">> \o r.name
FallbackQuery(r) == r.name

\* a plausible slip: the name-only lookup made for every row
GeocodeRow_AlwaysFallback(r, first, second) ==
    [lookups  |-> << [query |-> PrimaryQuery(r), result |-> first],
                     [query |-> FallbackQuery(r), result |-> second] >>,
     location |-> IF second.kind = "found" THEN second
                  ELSE [kind |-> "none", lat |-> 0, lon |-> 0]]

\* lines 24-33: the lookups made for row r when the service answers `first`
\* to the first lookup and `second` to the next, and the location kept
GeocodeRow(r, first, second) ==
    LET one == [query |-> PrimaryQuery(r), result |-> first]
        two == [query |-> FallbackQuery(r), result |-> second]
        none == [kind |-> "none", lat |-> 0, lon |-> 0]
    IN  IF first.kind = "raised"
        THEN [lookups |-> <<one>>, location |-> none]      \* except: pass
        ELSE IF first.kind = "found"
        THEN [lookups |-> <<one>>, location |-> first]
        ELSE [lookups  |-> <<one, two>>,                   \* if not location
              location |-> IF second.kind = "found" THEN second ELSE none]

InitGeoConv ==
    /\ gpc = "start"
    /\ df = <<>>
    /\ row = 0
    /\ lats = <<>>
    /\ lons = <<>>
    /\ lookups = <<>>

\* lines 7-11: the data file is missing
ReadCsvFails ==
    /\ gpc = "start"
    /\ gpc' = "nofile"
    /\ UNCHANGED <<df, row, lats, lons, lookups, mainVars, linkVars, infoVars>>

\* lines 7-20
ReadCsv ==
    /\ gpc = "start"
    /\ df' \in CsvFiles
    /\ gpc' = "loop"
    /\ UNCHANGED <<row, lats, lons, lookups, mainVars, linkVars, infoVars>>

\* lines 22-42: one row
GeocodeNextRow ==
    /\ gpc = "loop"
    /\ row < Len(df)
    /\ \E first \in LookupResults, second \in LookupResults :
         LET g == GeocodeRow(df[row + 1], first, second)
         IN  /\ lookups' = Append(lookups, g.lookups)
             /\ lats' = Append(lats, IF g.location.kind = "found"
                                     THEN Some(g.location.lat) ELSE None)
             /\ lons' = Append(lons, IF g.location.kind = "found"
                                     THEN Some(g.location.lon) ELSE None)
    /\ row' = row + 1
    /\ UNCHANGED <<gpc, df, mainVars, linkVars, infoVars>>

\* lines 44-48
WriteCsv ==
    /\ gpc = "loop"
    /\ row = Len(df)
    /\ gpc' = "done"
    /\ UNCHANGED <<df, row, lats, lons, lookups, mainVars, linkVars, infoVars>>


(***************************************************************************)
(* Specifications.  Each runs one program and leaves the others idle.      *)
(***************************************************************************)
IdleMain ==
    /\ pc = "idle" /\ links = <<>> /\ idx = 0 /\ shrines = <<>> /\ shrine_id = 1
    /\ output = None /\ progress = <<>> /\ listing = "none"
    /\ sinceGeocode = MinDelay /\ minGap = MinDelay
IdleLinks   == lpc = "idle" /\ lhtml = <<>> /\ lresult = <<>>
IdleInfo    ==
    /\ ipc = "idle" /\ icell = Absent
    /\ iinfo = [name |-> Absent, address |-> Absent, prefecture |-> Absent]
IdleGeoConv ==
    /\ gpc = "idle" /\ df = <<>> /\ row = 0 /\ lats = <<>> /\ lons = <<>>
    /\ lookups = <<>>

Init == InitMain /\ IdleLinks /\ IdleInfo /\ IdleGeoConv
Next == Discover \/ LoopBody \/ Finalize
Spec == Init /\ [][Next]_vars

LinksInit == IdleMain /\ InitLinks /\ IdleInfo /\ IdleGeoConv
LinksNext == RunExtractLinks
SpecLinks == LinksInit /\ [][LinksNext]_vars

InfoInit == IdleMain /\ IdleLinks /\ InitInfo /\ IdleGeoConv
InfoNext == RunExtractInfo
SpecInfo == InfoInit /\ [][InfoNext]_vars

GeoConvInit == IdleMain /\ IdleLinks /\ IdleInfo /\ InitGeoConv
GeoConvNext == ReadCsvFails \/ ReadCsv \/ GeocodeNextRow \/ WriteCsv
SpecGeoConv == GeoConvInit /\ [][GeoConvNext]_vars

(***************************************************************************)
(* Properties of scrape-shrines.py main (Spec).                            *)
(***************************************************************************)
Saved     == IF output = None THEN <<>> ELSE output[1]
Ran       == 1..Len(progress)
Failures  == Cardinality({k \in Ran : progress[k].outcome # "record"})

\* C1: every link whose detail page gives a non-empty name has a record in
\* the final output and is not reported as an error, whatever the geocoding
\* response was (empty array, not JSON, unexpected shape, non-numeric lat/lon,
\* transport failure).
C1_NamedLinkAlwaysRecorded ==
    pc = "done" =>
        \A k \in Ran :
            progress[k].name # <<>> =>
                /\ progress[k].outcome # "error"
                /\ \E j \in 1..Len(Saved) : Saved[j].src = k

\* C2: no geocoding request starts before MinDelay has passed since the
\* previous geocoding request, on every path through the loop.
C2_MinDelayBetweenRequests == minGap >= MinDelay

\* C3: a failed fetch of the listing page ends the run in failure: nothing is
\* handed to persistence as if the run had succeeded.
C3_ListingFailureIsFatal == listing = "failed" => output = None

\* C4: a failure on one link never ends the run: the run can always go on
\* until it is done, every link is attempted exactly once and in order, and
\* with two links, the first giving a record and the fetch of the second
\* failing, the output holds one record and one failure is reported.
C4_LinkFailureNeverEndsRun ==
    /\ pc = "done" \/ ENABLED Next
    /\ Len(progress) = idx
    /\ \A k \in Ran : progress[k].link = k /\ k <= Len(links)
    /\ pc = "done" => Len(progress) = Len(links)
    /\ ( /\ pc = "done"
         /\ Len(links) = 2
         /\ progress[1].outcome = "record"
         /\ progress[2].fetch \in {"failed", "raised"} )
       => Len(Saved) = 1 /\ Failures = 1

C4_Witness ==
    /\ pc = "done"
    /\ Len(links) = 2
    /\ progress[1].outcome = "record"
    /\ progress[2].fetch = "failed"
    /\ Len(Saved) = 1

\* C5: the saved record set holds no two records with the same name, region
\* and address.
C5_SavedUniqueByContent ==
    \A j, k \in 1..Len(Saved) :
        j # k => <<Saved[j].name, Saved[j].region, Saved[j].address>>
                 # <<Saved[k].name, Saved[k].region, Saved[k].address>>

\* C6: in every record, accumulated or saved, lat and lng are both numbers
\* or both None.
C6_CoordinatesBothOrNeither ==
    \A k \in 1..Len(shrines) :
        LET r == shrines[k]
        IN  \/ r.lat = None /\ r.lng = None
            \/ /\ r.lat # None /\ r.lng # None
               /\ r.lat[1] \in Int /\ r.lng[1] \in Int

C6_Witness ==
    /\ pc = "done"
    /\ \E k \in Ran :
         /\ progress[k].outcome = "record"
         /\ progress[k].resp =
                [kind |-> "array",
                 items |-> <<[kind |-> "object", lat |-> "35", lon |-> Missing]>>]
    /\ \E j \in 1..Len(Saved) : Saved[j].lat = Some(35) /\ Saved[j].lng = Some(139)

\* the links, in order, whose loop body appended a record
RecordLinks ==
    LET hit == SelectSeq(progress, LAMBDA e : e.outcome = "record")
    IN  [k \in 1..Len(hit) |-> hit[k].link]

\* C7: the record at position k has id k and comes from the k-th link, in
\* discovery order, that yielded a record.
C7_IdsFollowDiscoveryOrder ==
    /\ Len(shrines) = Len(RecordLinks)
    /\ \A k \in 1..Len(shrines) :
         /\ shrines[k].id = k
         /\ shrines[k].src = RecordLinks[k]
         /\ shrines[k].region = extract_region(links[RecordLinks[k]])
    /\ \A j, k \in 1..Len(shrines) : j < k => shrines[j].src < shrines[k].src

C7_Witness ==
    /\ pc = "done"
    /\ Len(links) = 3
    /\ progress[1].outcome = "record"
    /\ progress[2].outcome # "record"
    /\ progress[3].outcome = "record"
    /\ Saved[2].id = 2 /\ Saved[2].src = 3

TwoSegmentShape(link) ==
    LET parts == Split(link)
    IN  /\ Len(parts) = 5
        /\ parts[1] = <<>> /\ parts[2] = <<"a", "l", "l", "l", "i", "s", "t">>
        /\ parts[3] # <<>> /\ parts[4] # <<>> /\ parts[5] = <<>>

\* C9: every link extract_links returns has the shape
\* /alllist/<category>/<item>/ with exactly two path segments after the
\* section root and a trailing slash, and occurs once in the result.
C9_LinksHaveTwoSegmentsOnce ==
    lpc = "output" =>
        /\ \A k \in 1..Len(lresult) : TwoSegmentShape(lresult[k])
        /\ \A j, k \in 1..Len(lresult) : j # k => lresult[j] # lresult[k]

(***************************************************************************)
(* Properties of extract_shrine_info (SpecInfo).                           *)
(***************************************************************************)
\* p is a leading run of address without whitespace that ends in 都 道 府 県
LeadingSuffixToken(address, p) ==
    /\ Len(p) >= 1 /\ Len(p) <= Len(address)
    /\ SubSeq(address, 1, Len(p)) = p
    /\ \A m \in 1..Len(p) : ~IsSpace(p[m])
    /\ p[Len(p)] \in PrefSuffixes

\* C10: prefecture is set only when the cleaned address starts with a token
\* (a leading run without whitespace) that ends in 都 道 府 県, and is then
\* that leading token; otherwise it is absent.
C10_PrefectureIsLeadingToken ==
    ipc = "output" =>
        \/ iinfo.prefecture = Absent
        \/ /\ iinfo.address # Absent
           /\ LeadingSuffixToken(iinfo.address, iinfo.prefecture)
====
